---- MODULE Spec2Model ----
(***************************************************************************)
(* A model of the Wazuh MCP server: the JSON-RPC dispatcher (McpServer),   *)
(* the stdio transport loop (StdioTransport) and the authenticated client  *)
(* (WazuhClientBase) of "Log master Mcp".                                  *)
(*                                                                         *)
(* Encoding of Python values:                                              *)
(*   - None is the string "None"; a key missing from a JSON object is the  *)
(*     marker Absent (dict.get maps it to its default);                    *)
(*   - an Optional[str] return value of handle_message is a sequence of    *)
(*     length 0 (None) or 1 (the envelope);                                *)
(*   - a dict whose keys vary (an envelope) is a record, an ordered dict   *)
(*     (handler._tools) is a sequence of its values in insertion order;    *)
(*   - a formatted string is the sequence of its parts.                    *)
(***************************************************************************)
EXTENDS Integers, Sequences, FiniteSets, TLC

\* Bounds of the model.
MaxLines == 2
MaxWork == 1
MaxCalls == 2
MaxMethods == 3
MaxIdLen == 4

\* class ErrorCodes
PARSE_ERROR == -32700
INVALID_REQUEST == -32600
METHOD_NOT_FOUND == -32601
INVALID_PARAMS == -32602
INTERNAL_ERROR == -32603

None == "None"
Absent == "<absent>"

VARIABLES
    initialized,    \* McpServer.initialized
    tools,          \* McpServer.tools
    handler_tools,  \* handler._tools, set by @tool_box
    tpc,            \* StdioTransport.start: "loop" while in the while loop, "stopped" after it
    stop_reason,    \* how the loop was left: "" (not left), "eof" (break), "error" (except Exception)
    line,           \* start(): the local variable line
    response,       \* start(): the local variable response
    stdout,         \* the lines printed, in order
    wrote,          \* for each printed line, the number of the input line it answers
    nread,          \* how many lines have been read from stdin
    inflight,       \* dispatches suspended inside a tool call
    last,           \* the dispatch that finished last: its line, and what the tool body did
    session,        \* WazuhClientBase._session: "None", "open" or "closed"
    token,          \* WazuhClientBase.token
    cpc,            \* where _make_request stands: "idle", "auth", "request", "reauth", "retry"
    call,           \* the arguments of the _make_request in progress or last made, and
                    \* the token held when it was called
    log,            \* the remote calls that _make_request has issued, in order
    replies,        \* the replies it has received, in order
    result,         \* how it ended: what it returned or raised
    ncalls,         \* how many _make_request calls have been made
    connector,      \* WazuhClientBase._connector: "None", "open" or "closed"
    scope,          \* the `async with client` block: whether it is active, the value of
                    \* ncalls when it was entered, the exception its body last ended with
    settings,       \* WazuhClientBase.protocol and .verify_ssl, as given to __init__
    ssl_context,    \* WazuhClientBase._ssl_context
    func,           \* a function declaration handed to @tool
    decorated,      \* what @tool made of it: <<>> before, <<the tool>> after
    class_body,     \* the decorated methods of a class body handed to @tool_box
    box,            \* cls._tools as @tool_box set it: <<>> before, <<the dict>> after
    listing,        \* the result of tools/list on that class: <<>> before
    vuln            \* a call of a vulnerability tool: the tool, its agent_id argument,
                    \* where the call stands, the formatted id and the result returned

cvars == <<session, token, cpc, call, log, replies, result, ncalls, connector, scope,
           settings, ssl_context>>

svars == <<func, decorated, class_body, box, listing>>

tvars == <<vuln>>

pvars == <<initialized, tools, handler_tools, tpc, stop_reason, line, response,
           stdout, wrote, nread, inflight, last>>

-----------------------------------------------------------------------------
(* Schema derivation and the registry: @tool, @tool_box.                   *)

T(origin) == [origin |-> origin, args |-> <<>>]
Optional(t) == [origin |-> "Union", args |-> <<t, "NoneType">>]
Param(name, annotation, has_default) ==
    [name |-> name, annotation |-> annotation, has_default |-> has_default]

simple_type_to_json_type(py_type) ==
    CASE py_type = "str" -> "string"
      [] py_type = "int" -> "integer"
      [] py_type = "float" -> "number"
      [] py_type = "bool" -> "boolean"
      [] py_type = "list" -> "array"
      [] py_type = "dict" -> "object"
      [] py_type = "NoneType" -> "null"
      [] OTHER -> "string"

python_type_to_json_type(py_type) ==
    IF py_type.origin = "Union"
    THEN LET non_none_args == SelectSeq(py_type.args, LAMBDA arg : arg # "NoneType")
         IN IF Len(non_none_args) = 1
            THEN simple_type_to_json_type(non_none_args[1])
            ELSE "object"
    ELSE simple_type_to_json_type(py_type.origin)

is_optional(param_type) ==
    /\ param_type.origin = "Union"
    /\ \E i \in 1..Len(param_type.args) : param_type.args[i] = "NoneType"

\* params_to_inspect if the leading self were not dropped.
params_to_inspect_keeps_self(signature) == signature

\* The declared parameters of a function, without a leading self.
params_to_inspect(signature) ==
    IF signature # <<>> /\ signature[1].name = "self" THEN Tail(signature) ELSE signature

required_of(ps) ==
    LET req == SelectSeq(ps, LAMBDA param : ~param.has_default /\ ~is_optional(param.annotation))
    IN [i \in 1..Len(req) |-> req[i].name]

tool(name, description, signature) ==
    LET ps == params_to_inspect(signature)
    IN [name |-> name,
        description |-> description,
        input_schema |->
            [schema |-> "http://json-schema.org/draft-07/schema#",
             type |-> "object",
             properties |-> {[name |-> ps[i].name,
                              type |-> python_type_to_json_type(ps[i].annotation)]
                             : i \in 1..Len(ps)},
             required |-> required_of(ps),
             title |-> <<name, "_params">>],
        method |-> name,
        params |-> ps]

Self == Param("self", T("H"), FALSE)

\* The decorated methods of WazuhMcpHandler, in the order of the class body.
WazuhMcpHandlerMethods ==
    << tool("get_wazuh_vulnerability_summary",
            "Retrieves a summary of Wazuh vulnerability detections for a specific agent.",
            <<Self, Param("agent_id", T("str"), FALSE),
              Param("limit", Optional("int"), TRUE),
              Param("severity", Optional("str"), TRUE),
              Param("cve", Optional("str"), TRUE)>>),
       tool("get_wazuh_critical_vulnerabilities",
            "Get critical vulnerabilities for a specific Wazuh agent.",
            <<Self, Param("agent_id", T("str"), FALSE),
              Param("limit", T("int"), TRUE)>>),
       tool("get_wazuh_agents",
            "Retrieves a list of Wazuh agents with their current status and details.",
            <<Self, Param("limit", Optional("int"), TRUE),
              Param("status", T("str"), TRUE)>>),
       tool("get_wazuh_alert_summary",
            "Retrieves alerts from Wazuh Indexer.",
            <<Self, Param("limit", Optional("int"), TRUE)>>) >>

\* A registry that is a list: every registration adds an entry.
dict_set_appends(d, value) == Append(d, value)

\* dict assignment d[key] = value on an ordered dict kept as a sequence.
dict_set(d, value) ==
    IF \E i \in 1..Len(d) : d[i].name = value.name
    THEN [i \in 1..Len(d) |-> IF d[i].name = value.name THEN value ELSE d[i]]
    ELSE Append(d, value)

RECURSIVE tool_box_from(_, _)
tool_box_from(methods, acc) ==
    IF methods = <<>> THEN acc
    ELSE tool_box_from(Tail(methods), dict_set(acc, Head(methods)))

tool_box(methods) == tool_box_from(methods, <<>>)

dict_has(d, key) == \E i \in 1..Len(d) : d[i].name = key
dict_get(d, key) == d[CHOOSE i \in 1..Len(d) : d[i].name = key]

-----------------------------------------------------------------------------
(* Input lines. A line is kept as what json.loads makes of it.             *)

L(text, jsonrpc, id, method, params, name, arguments, keys) ==
    [text |-> text, jsonrpc |-> jsonrpc, id |-> id, method |-> method,
     params |-> params, name |-> name, arguments |-> arguments, keys |-> keys]

\* A line that is no JSON object: "blank" (whitespace only), "garbage" (json.loads
\* raises JSONDecodeError), "overdeep" (json.loads raises an exception that is not
\* a JSONDecodeError: RecursionError on deep nesting, ValueError on an integer
\* literal over the digit limit), "nonobject" (a JSON array, number, string, ...).
Plain(text) == L(text, Absent, Absent, Absent, "absent", Absent, "absent", {})
Obj(jsonrpc, id, method) == L("object", jsonrpc, id, method, "absent", Absent, "absent", {})
Call(jsonrpc, id, params, name, arguments, keys) ==
    L("object", jsonrpc, id, "tools/call", params, name, arguments, keys)

NoLine == Plain("unread")

JsonrpcTags == {Absent, "2.0", "1.0"}
Ids == {Absent, "1", "2"}
Methods == {Absent, "", "initialize", "notifications/initialized", "tools/list",
            "tools/call", "frobnicate"}
ToolNameInputs == {Absent, "", "get_wazuh_vulnerability_summary", "get_wazuh_agents",
                   "no_such_tool"}
ArgKeys == {"agent_id", "bogus"}

Lines ==
    {Plain(t) : t \in {"blank", "garbage", "overdeep", "nonobject"}}
    \cup {Obj(j, i, m) : j \in JsonrpcTags, i \in Ids, m \in Methods}
    \cup {Call("2.0", i, "nonobject", Absent, "absent", {}) : i \in Ids}
    \cup {Call("2.0", i, "object", n, "absent", {}) : i \in Ids, n \in ToolNameInputs}
    \cup {Call("2.0", i, "object", n, "nonmapping", {}) : i \in Ids, n \in ToolNameInputs}
    \cup {Call("2.0", i, "object", n, "mapping", k) :
            i \in Ids, n \in ToolNameInputs, k \in SUBSET ArgKeys}
    \cup {Call(j, i, "object", "get_wazuh_agents", "absent", {}) :
            j \in {Absent, "1.0"}, i \in Ids}

\* The loop if it had no test for a line that strip() empties.
strip_is_empty_never(l) == FALSE

\* str.strip() leaves nothing of a blank line.
strip_is_empty(l) == l.text = "blank"

\* dict.get(key): None for a missing key.
get(request, key) == IF request[key] = Absent THEN None ELSE request[key]

-----------------------------------------------------------------------------
(* What a tool call does. The body of a tool is the environment: it returns *)
(* a CallToolResult, returns something else, or raises.                     *)

Content(text) == [type |-> "text", text |-> text]

BodyOutcomes ==
    { [kind |-> "CallToolResult", content |-> <<Content(<<"item">>)>>, is_error |-> FALSE],
      [kind |-> "CallToolResult", content |-> <<Content(<<"item">>)>>, is_error |-> TRUE],
      [kind |-> "CallToolResult", content |-> <<Content(<<"item">>), Content(<<"more">>)>>,
       is_error |-> FALSE],
      [kind |-> "other", content |-> <<>>, is_error |-> FALSE],
      [kind |-> "raise", content |-> <<>>, is_error |-> FALSE] }

\* The outcome handed to a dispatch whose tool body never runs.
NotRun == [kind |-> "notrun", content |-> <<>>, is_error |-> FALSE]

Raised(exc, msg) == [exc |-> exc, msg |-> msg]
Returned(value) == [exc |-> "none", value |-> value]

\* The call if the handler took any keyword arguments (a **kwargs signature).
binds_any_names(tool_info, arguments, keys) == arguments # "nonmapping"

\* method(self.handler, **arguments): Python binds the arguments before the body
\* runs and raises TypeError when they do not fit the signature.
binds(tool_info, arguments, keys) ==
    /\ arguments # "nonmapping"
    /\ keys \subseteq {tool_info.params[i].name : i \in 1..Len(tool_info.params)}
    /\ \A i \in 1..Len(tool_info.params) :
           tool_info.params[i].has_default \/ tool_info.params[i].name \in keys

\* The result of `await method(self.handler, **arguments)`.
invoke(tool_info, arguments, keys, outcome) ==
    IF ~binds(tool_info, arguments, keys)
    THEN Raised("TypeError", <<"arguments do not fit ", tool_info.name>>)
    ELSE IF outcome.kind = "raise"
    THEN Raised("Exception", <<"tool failure">>)
    ELSE Returned(outcome)

-----------------------------------------------------------------------------
(* McpServer.                                                               *)

\* _create_success_response if it left the id out of the envelope.
_create_success_response_no_id(request_id, res) ==
    [jsonrpc |-> "2.0", result |-> res]

_create_success_response(request_id, res) ==
    [jsonrpc |-> "2.0", id |-> request_id, result |-> res]

\* _create_error_response if it did not take the id it is given.
_create_error_response_null_id(request_id, code, message) ==
    [jsonrpc |-> "2.0", id |-> None, error |-> [code |-> code, message |-> message]]

\* Every caller leaves data at its default None, so no "data" member is set.
_create_error_response(request_id, code, message) ==
    [jsonrpc |-> "2.0", id |-> request_id, error |-> [code |-> code, message |-> message]]

\* str(JsonRpcError(code, message))
JsonRpcError(code, message) ==
    Raised("JsonRpcError", <<"JSON-RPC Error ", ToString(code), ": ">> \o message)

\* WazuhMcpHandler.get_info
get_info ==
    [protocol_version |-> "2024-11-05",
     capabilities |-> [tools |-> TRUE, prompts |-> FALSE, resources |-> FALSE],
     server_info |-> [name |-> "mcp-server-wazuh-python", version |-> "0.2.4"],
     instructions |-> "This server provides tools to interact with a Wazuh SIEM instance"]

_handle_initialize ==
    LET server_info == get_info
    IN [protocolVersion |-> "2024-11-05",
        capabilities |-> {"tools", "prompts", "resources"},
        serverInfo |-> [name |-> server_info.server_info.name,
                        version |-> server_info.server_info.version],
        instructions |-> server_info.instructions]

\* _handle_tools_list if it left the last registered tool out.
_handle_tools_list_omits_last(htools) ==
    [tools |-> [i \in 1..(Len(htools) - 1) |->
                  [name |-> htools[i].name,
                   description |-> htools[i].description,
                   inputSchema |-> htools[i].input_schema]]]

_handle_tools_list(htools) ==
    [tools |-> [i \in 1..Len(htools) |->
                  [name |-> htools[i].name,
                   description |-> htools[i].description,
                   inputSchema |-> htools[i].input_schema]]]

\* _handle_tools_call without its try/except around the tool call: what the tool
\* raises leaves _handle_tools_call.
_handle_tools_call_reraises(htools, request, outcome) ==
    IF request.params = "nonobject"
    THEN Raised("AttributeError", <<"'list' object has no attribute 'get'">>)
    ELSE LET tool_name == get(request, "name")
         IN IF tool_name \in {None, ""}
            THEN JsonRpcError(INVALID_PARAMS, <<"Missing tool name">>)
            ELSE IF dict_has(htools, tool_name)
            THEN LET r == invoke(dict_get(htools, tool_name), request.arguments,
                                 request.keys, outcome)
                 IN IF r.exc # "none"
                    THEN r
                    ELSE IF r.value.kind = "CallToolResult"
                    THEN Returned([content |-> r.value.content,
                                   isError |-> r.value.is_error])
                    ELSE Returned([content |-> <<Content(<<"str(result)">>)>>,
                                   isError |-> FALSE])
            ELSE JsonRpcError(METHOD_NOT_FOUND, <<"Tool not found: ", tool_name>>)

\* `outcome` is what the tool body does if it gets to run.
_handle_tools_call(htools, request, outcome) ==
    IF request.params = "nonobject"
    THEN Raised("AttributeError", <<"'list' object has no attribute 'get'">>)
    ELSE LET tool_name == get(request, "name")
         IN IF tool_name \in {None, ""}
            THEN JsonRpcError(INVALID_PARAMS, <<"Missing tool name">>)
            ELSE IF dict_has(htools, tool_name)
            THEN LET r == invoke(dict_get(htools, tool_name), request.arguments,
                                 request.keys, outcome)
                 IN IF r.exc # "none"
                    THEN Returned([content |-> <<Content(<<"Error calling tool: ">> \o r.msg)>>,
                                   isError |-> TRUE])
                    ELSE IF r.value.kind = "CallToolResult"
                    THEN Returned([content |-> r.value.content,
                                   isError |-> r.value.is_error])
                    ELSE Returned([content |-> <<Content(<<"str(result)">>)>>,
                                   isError |-> FALSE])
            ELSE JsonRpcError(METHOD_NOT_FOUND, <<"Tool not found: ", tool_name>>)

\* Whether dispatching the line reaches `await method(...)` with arguments that
\* bind, so that the tool body runs (and may suspend on the remote API).
runs_tool(htools, l) ==
    /\ l.text = "object"
    /\ l.jsonrpc = "2.0"
    /\ l.method = "tools/call"
    /\ l.params # "nonobject"
    /\ l.name \notin {Absent, ""}
    /\ dict_has(htools, l.name)
    /\ binds(dict_get(htools, l.name), l.arguments, l.keys)

\* The branch for notifications/initialized if it flipped the flag.
notifications_initialized_toggles(init, request_id) ==
    [exc |-> "none", initialized |-> ~init, value |-> <<>>]

\* The branch for notifications/initialized if it answered a message that has an id.
notifications_initialized_answers(init, request_id) ==
    [exc |-> "none", initialized |-> TRUE,
     value |-> IF request_id = None THEN <<>>
               ELSE <<_create_success_response(request_id, [tools |-> <<>>])>>]

\* The branch of handle_message for notifications/initialized: the flag is set
\* and None is returned, whatever the id.
notifications_initialized(init, request_id) ==
    [exc |-> "none", initialized |-> TRUE, value |-> <<>>]

\* The try block if the test of the protocol tag's value (`request["jsonrpc"] !=
\* "2.0"`) were missing: a message with another tag reaches the method dispatch.
handle_request_any_version(htools, init, request, outcome) ==
    IF request.text # "object" \/ request.jsonrpc = Absent
    THEN [exc |-> "none", initialized |-> init,
          value |-> <<_create_error_response(None, INVALID_REQUEST,
                                             <<"Invalid JSON-RPC request">>)>>]
    ELSE IF get(request, "method") \in {None, ""}
    THEN [exc |-> "none", initialized |-> init,
          value |-> <<_create_error_response(get(request, "id"), INVALID_REQUEST,
                                             <<"Missing method field">>)>>]
    ELSE LET method == request.method
             request_id == get(request, "id")
         IN CASE method = "initialize" ->
                   [exc |-> "none", initialized |-> init,
                    value |-> <<_create_success_response(request_id, _handle_initialize)>>]
              [] method = "notifications/initialized" ->
                   notifications_initialized(init, request_id)
              [] method = "tools/list" ->
                   [exc |-> "none", initialized |-> init,
                    value |-> <<_create_success_response(request_id,
                                                         _handle_tools_list(htools))>>]
              [] method = "tools/call" ->
                   LET r == _handle_tools_call(htools, request, outcome)
                   IN IF r.exc = "none"
                      THEN [exc |-> "none", initialized |-> init,
                            value |-> <<_create_success_response(request_id, r.value)>>]
                      ELSE [exc |-> r.exc, initialized |-> init, msg |-> r.msg]
              [] OTHER ->
                   [exc |-> "none", initialized |-> init,
                    value |-> <<_create_error_response(request_id, METHOD_NOT_FOUND,
                                                       <<"Method not found: ", method>>)>>]

\* The try block if tools/list and tools/call were refused before the
\* initialized notification.
handle_request_requires_initialize(htools, init, request, outcome) ==
    IF request.text # "object" \/ request.jsonrpc = Absent
    THEN [exc |-> "none", initialized |-> init,
          value |-> <<_create_error_response(None, INVALID_REQUEST,
                                             <<"Invalid JSON-RPC request">>)>>]
    ELSE IF request.jsonrpc # "2.0"
    THEN [exc |-> "none", initialized |-> init,
          value |-> <<_create_error_response(get(request, "id"), INVALID_REQUEST,
                                             <<"Unsupported JSON-RPC version">>)>>]
    ELSE IF get(request, "method") \in {None, ""}
    THEN [exc |-> "none", initialized |-> init,
          value |-> <<_create_error_response(get(request, "id"), INVALID_REQUEST,
                                             <<"Missing method field">>)>>]
    ELSE LET method == request.method
             request_id == get(request, "id")
         IN CASE method = "initialize" ->
                   [exc |-> "none", initialized |-> init,
                    value |-> <<_create_success_response(request_id, _handle_initialize)>>]
              [] method = "notifications/initialized" ->
                   notifications_initialized(init, request_id)
              [] method \in {"tools/list", "tools/call"} /\ ~init ->
                   [exc |-> "none", initialized |-> init,
                    value |-> <<_create_error_response(request_id, INVALID_REQUEST,
                                                       <<"Server not initialized">>)>>]
              [] method = "tools/list" ->
                   [exc |-> "none", initialized |-> init,
                    value |-> <<_create_success_response(request_id,
                                                         _handle_tools_list(htools))>>]
              [] method = "tools/call" ->
                   LET r == _handle_tools_call(htools, request, outcome)
                   IN IF r.exc = "none"
                      THEN [exc |-> "none", initialized |-> init,
                            value |-> <<_create_success_response(request_id, r.value)>>]
                      ELSE [exc |-> r.exc, initialized |-> init, msg |-> r.msg]
              [] OTHER ->
                   [exc |-> "none", initialized |-> init,
                    value |-> <<_create_error_response(request_id, METHOD_NOT_FOUND,
                                                       <<"Method not found: ", method>>)>>]

\* The try block of handle_message after json.loads: what it returns or raises
\* and the value of self.initialized it leaves.
handle_request(htools, init, request, outcome) ==
    IF request.text # "object" \/ request.jsonrpc = Absent
    THEN [exc |-> "none", initialized |-> init,
          value |-> <<_create_error_response(None, INVALID_REQUEST,
                                             <<"Invalid JSON-RPC request">>)>>]
    ELSE IF request.jsonrpc # "2.0"
    THEN [exc |-> "none", initialized |-> init,
          value |-> <<_create_error_response(get(request, "id"), INVALID_REQUEST,
                                             <<"Unsupported JSON-RPC version">>)>>]
    ELSE IF get(request, "method") \in {None, ""}
    THEN [exc |-> "none", initialized |-> init,
          value |-> <<_create_error_response(get(request, "id"), INVALID_REQUEST,
                                             <<"Missing method field">>)>>]
    ELSE LET method == request.method
             request_id == get(request, "id")
         IN CASE method = "initialize" ->
                   [exc |-> "none", initialized |-> init,
                    value |-> <<_create_success_response(request_id, _handle_initialize)>>]
              [] method = "notifications/initialized" ->
                   notifications_initialized(init, request_id)
              [] method = "tools/list" ->
                   [exc |-> "none", initialized |-> init,
                    value |-> <<_create_success_response(request_id,
                                                         _handle_tools_list(htools))>>]
              [] method = "tools/call" ->
                   LET r == _handle_tools_call(htools, request, outcome)
                   IN IF r.exc = "none"
                      THEN [exc |-> "none", initialized |-> init,
                            value |-> <<_create_success_response(request_id, r.value)>>]
                      ELSE [exc |-> r.exc, initialized |-> init, msg |-> r.msg]
              [] OTHER ->
                   [exc |-> "none", initialized |-> init,
                    value |-> <<_create_error_response(request_id, METHOD_NOT_FOUND,
                                                       <<"Method not found: ", method>>)>>]

\* json.loads(message)
json_loads(message) ==
    CASE message.text \in {"garbage", "blank"} -> Raised("JSONDecodeError", <<"Parse error">>)
      [] message.text = "overdeep" -> Raised("RecursionError", <<"maximum recursion depth exceeded">>)
      [] OTHER -> Returned(message)

\* The `except Exception as e` clause of handle_message. It reads the local
\* variable request, which is unbound when json.loads itself raised: then the
\* clause raises UnboundLocalError out of handle_message.
except_Exception(init, parsed, e) ==
    IF parsed.exc # "none"
    THEN [exc |-> "UnboundLocalError", initialized |-> init,
          msg |-> <<"cannot access local variable 'request'">>]
    ELSE [exc |-> "none", initialized |-> init,
          value |-> <<_create_error_response(
                        IF parsed.value.text = "object" THEN get(parsed.value, "id") ELSE None,
                        INTERNAL_ERROR, e.msg)>>]

\* McpServer.handle_message: [exc, initialized, value], value being <<>> for None.
handle_message(htools, init, message, outcome) ==
    LET parsed == json_loads(message)
    IN IF parsed.exc = "JSONDecodeError"
       THEN [exc |-> "none", initialized |-> init,
             value |-> <<_create_error_response(None, PARSE_ERROR, <<"Parse error">>)>>]
       ELSE IF parsed.exc # "none"
       THEN except_Exception(init, parsed, parsed)
       ELSE LET r == handle_request(htools, init, parsed.value, outcome)
            IN IF r.exc = "none" THEN r ELSE except_Exception(r.initialized, parsed, r)


-----------------------------------------------------------------------------
(* The decorators applied to declarations drawn from bounded sets.          *)

\* A union written with typing.Union and one written `X | Y`, for which get_origin
\* gives types.UnionType (Python 3.10 to 3.13), not typing.Union.
Union(args) == [origin |-> "Union", args |-> args]
UnionType(args) == [origin |-> "UnionType", args |-> args]

\* Annotations: classes, generics by their origin, "bytes" for a class that has
\* no rule, "empty" for a parameter without annotation, and unions.
Annotations ==
    {T(c) : c \in {"str", "int", "float", "bool", "list", "dict", "bytes", "NoneType",
                   "empty"}}
    \cup {Optional(c) : c \in {"int", "list", "bytes"}}
    \cup {Union(<<"int", "str">>), Union(<<"int", "str", "NoneType">>),
          UnionType(<<"int", "NoneType">>)}

ParamsNamed(n) == {Param(n, a, d) : a \in Annotations, d \in BOOLEAN}

\* Signatures of at most two parameters, with and without a leading self, and
\* with a parameter called self that is not the first.
Signatures ==
    LET plain == {<<>>} \cup {<<p>> : p \in ParamsNamed("a")}
                 \cup {<<p, q>> : p \in ParamsNamed("a"), q \in ParamsNamed("b")}
    IN plain \cup {<<Self>> \o sig : sig \in plain}
             \cup {<<p, Param("self", T("str"), FALSE)>> : p \in ParamsNamed("a")}

\* A function declaration: its __name__, the name and description given to @tool,
\* its parameters.
Func(fname, name, description, signature) ==
    [fname |-> fname, name |-> name, description |-> description, signature |-> signature]

NoFunc == Func("", None, "", <<>>)

Funcs == {Func("f", n, "d", sig) : n \in {None, "", "t"}, sig \in Signatures}

\* @tool(name, description)(func): `tool_name = name or func.__name__`, and the
\* function itself is the handler.
decorate(f) ==
    LET tool_name == IF f.name \in {None, ""} THEN f.fname ELSE f.name
    IN [tool(tool_name, f.description, f.signature) EXCEPT !.method = f.fname]

\* The i-th def of a class body: the names of the defs of a class are distinct.
MethodsAt(i) ==
    {Func("f" \o ToString(i), n, d, sig) :
        n \in {"dup", "other"}, d \in {"first", "second"},
        sig \in {<<Self>>, <<Self, Param("a", T("int"), FALSE)>>}}

\* Class bodies of at most MaxMethods decorated methods.
ClassBodies ==
    UNION {{b \in [1..n -> UNION {MethodsAt(i) : i \in 1..n}] :
              \A i \in 1..n : b[i] \in MethodsAt(i)} : n \in 0..MaxMethods}

\* The inputs: one declaration to decorate, or one class body to register.
SInputs ==
    /\ decorated = <<>>
    /\ box = <<>>
    /\ listing = <<>>
    /\ \/ func \in Funcs /\ class_body = <<>>
       \/ func = NoFunc /\ class_body \in ClassBodies

\* @tool is applied to the declaration.
Decorate ==
    /\ func # NoFunc
    /\ decorated = <<>>
    /\ decorated' = <<decorate(func)>>
    /\ UNCHANGED <<func, class_body, box, listing>>
    /\ UNCHANGED <<pvars, cvars, tvars>>

\* @tool_box is applied to the class whose body holds the decorated methods.
ToolBox ==
    /\ func = NoFunc
    /\ box = <<>>
    /\ box' = <<tool_box([i \in 1..Len(class_body) |-> decorate(class_body[i])])>>
    /\ UNCHANGED <<func, decorated, class_body, listing>>
    /\ UNCHANGED <<pvars, cvars, tvars>>

\* tools/list is handled by a server whose handler is of that class.
ToolsList ==
    /\ box # <<>>
    /\ listing = <<>>
    /\ listing' = <<_handle_tools_list(box[1])>>
    /\ UNCHANGED <<func, decorated, class_body, box>>
    /\ UNCHANGED <<pvars, cvars, tvars>>

-----------------------------------------------------------------------------
(* StdioTransport.start and the run of one dispatch.                        *)

\* McpServer.__init__ with _register_tools: a copy of the handler's tools.
_register_tools(htools) == tool_box_from(htools, <<>>)

\* The loop if it read one line ahead of the dispatch it is waiting for.
can_read_one_ahead(pending) == Cardinality(pending) <= 1

\* The loop if it did not await the dispatch (a task per line).
can_read_always(pending) == TRUE

\* `response = await self.server.handle_message(line)`: start() is suspended
\* until the dispatch of the line has returned, so it reads no line meanwhile.
can_read(pending) == pending = {}

\* The registry if looking a tool up took its entry out (dict.pop).
registry_after_pop(htools, l) ==
    IF l.text = "object" /\ l.method = "tools/call" /\ dict_has(htools, l.name)
    THEN SelectSeq(htools, LAMBDA t : t.name # l.name)
    ELSE htools

\* self.handler._tools once handle_message has returned for line l: the
\* dispatcher only reads it (hasattr, `in`, [], items()), it assigns no entry.
registry_after(htools, l) == htools

\* The rest of the loop body once handle_message has finished for input line
\* number seq: `if response: print(response, flush=True)`; an exception out of
\* handle_message is caught by `except Exception` outside the while loop.
finish(seq, r) ==
    IF r.exc # "none"
    THEN /\ tpc' = "stopped"
         /\ stop_reason' = "error"
         /\ UNCHANGED <<initialized, response, stdout, wrote>>
    ELSE /\ initialized' = r.initialized
         /\ response' = r.value
         /\ stdout' = IF r.value # <<>> THEN Append(stdout, r.value[1]) ELSE stdout
         /\ wrote' = IF r.value # <<>> THEN Append(wrote, seq) ELSE wrote
         /\ UNCHANGED <<tpc, stop_reason>>

\* End of input if readline raised on it instead of returning "".
ReadEOF_raises ==
    /\ tpc = "loop"
    /\ can_read(inflight)
    /\ tpc' = "stopped"
    /\ stop_reason' = "error"
    /\ UNCHANGED <<initialized, tools, handler_tools, line, response, stdout, wrote,
                   nread, inflight, last>>
    /\ UNCHANGED cvars
    /\ UNCHANGED svars
    /\ UNCHANGED tvars

\* readline returns "": end of input, break.
ReadEOF ==
    /\ tpc = "loop"
    /\ can_read(inflight)
    /\ tpc' = "stopped"
    /\ stop_reason' = "eof"
    /\ UNCHANGED <<initialized, tools, handler_tools, line, response, stdout, wrote,
                   nread, inflight, last>>
    /\ UNCHANGED cvars
    /\ UNCHANGED svars
    /\ UNCHANGED tvars

\* A line that is empty after strip(): continue.
ReadBlank ==
    /\ tpc = "loop"
    /\ can_read(inflight)
    /\ nread < MaxLines
    /\ \E l \in Lines :
         /\ strip_is_empty(l)
         /\ line' = l
    /\ nread' = nread + 1
    /\ UNCHANGED <<initialized, tools, handler_tools, tpc, stop_reason, response, stdout,
                   wrote, inflight, last>>
    /\ UNCHANGED cvars
    /\ UNCHANGED svars
    /\ UNCHANGED tvars

\* A line whose dispatch runs to its end without suspending.
ReadHandle ==
    /\ tpc = "loop"
    /\ can_read(inflight)
    /\ nread < MaxLines
    /\ \E l \in Lines :
         /\ ~strip_is_empty(l)
         /\ ~runs_tool(handler_tools, l)
         /\ line' = l
         /\ finish(nread + 1, handle_message(handler_tools, initialized, l, NotRun))
         /\ last' = [seq |-> nread + 1, line |-> l, outcome |-> NotRun, work |-> 0,
                      initialized |-> initialized]
         /\ handler_tools' = registry_after(handler_tools, l)
    /\ nread' = nread + 1
    /\ UNCHANGED <<tools, inflight>>
    /\ UNCHANGED cvars
    /\ UNCHANGED svars
    /\ UNCHANGED tvars

\* A tools/call whose tool body starts to run: the dispatch is suspended in it.
ReadCallTool ==
    /\ tpc = "loop"
    /\ can_read(inflight)
    /\ nread < MaxLines
    /\ \E l \in Lines :
         /\ ~strip_is_empty(l)
         /\ runs_tool(handler_tools, l)
         /\ line' = l
         /\ inflight' = inflight \cup {[seq |-> nread + 1, line |-> l, work |-> 0]}
    /\ nread' = nread + 1
    /\ UNCHANGED <<initialized, tools, handler_tools, tpc, stop_reason, response, stdout,
                   wrote, last>>
    /\ UNCHANGED cvars
    /\ UNCHANGED svars
    /\ UNCHANGED tvars

\* The tool body awaits something (a remote call) and is resumed.
ToolWork ==
    /\ tpc = "loop"
    /\ \E m \in inflight :
         /\ m.work < MaxWork
         /\ inflight' = (inflight \ {m}) \cup {[m EXCEPT !.work = @ + 1]}
    /\ UNCHANGED <<initialized, tools, handler_tools, tpc, stop_reason, line, response,
                   stdout, wrote, nread, last>>
    /\ UNCHANGED cvars
    /\ UNCHANGED svars
    /\ UNCHANGED tvars

\* The tool body returns or raises; the dispatch finishes.
ToolReturn ==
    /\ tpc = "loop"
    /\ \E m \in inflight :
         /\ inflight' = inflight \ {m}
         /\ \E o \in BodyOutcomes :
              /\ finish(m.seq, handle_message(handler_tools, initialized, m.line, o))
              /\ last' = [seq |-> m.seq, line |-> m.line, outcome |-> o, work |-> m.work,
                           initialized |-> initialized]
         /\ handler_tools' = registry_after(handler_tools, m.line)
    /\ UNCHANGED <<tools, line, nread>>
    /\ UNCHANGED cvars
    /\ UNCHANGED svars
    /\ UNCHANGED tvars

-----------------------------------------------------------------------------
(* WazuhClientBase: the session scope, authenticate and _make_request.      *)
(* The remote API is the environment: each reply is chosen freely.          *)

Tokens == {"tokA", "tokB"}
HttpMethods == {"GET"}
Endpoints == {"/agents", "/vulnerability/001"}

\* Replies to POST /security/user/authenticate. token = None: a 200 body with no
\* data.token. status 0: no HTTP reply, aiohttp.ClientError.
AuthReplies ==
    {[status |-> 200, token |-> t] : t \in Tokens \cup {None}}
    \cup {[status |-> st, token |-> None] : st \in {401, 500, 0}}

\* The body texts of the replies, and whether json.loads accepts a body.
Bodies == {"{}", "denied"}
json_parses(body) == body = "{}"

\* Replies to the resource request. json_ok: the body parses as JSON. status 0:
\* no HTTP reply, aiohttp.ClientError.
ResourceReplies ==
    {[status |-> st, json_ok |-> json_parses(b), body |-> b] :
        st \in {200, 401, 404, 500}, b \in Bodies}
    \cup {[status |-> 0, json_ok |-> FALSE, body |-> ""]}

NoCall == [method |-> "", endpoint |-> "", held |-> None, scoped |-> FALSE]
NoResult == [kind |-> "none", status |-> 0, text |-> <<>>]
Return == [kind |-> "return", status |-> 200, text |-> <<>>]
\* status 0 stands for status_code = None.
WazuhApiError(text, status_code) ==
    [kind |-> "WazuhApiError", status |-> status_code, text |-> text]
OtherError(kind) == [kind |-> kind, status |-> 0, text |-> <<>>]

auth_call == [kind |-> "authenticate", method |-> "POST",
              endpoint |-> "/security/user/authenticate", token |-> None]
resource_call(c, tok) == [kind |-> "resource", method |-> c.method,
                          endpoint |-> c.endpoint, token |-> tok]

\* The reissued request if it were sent with the headers of the original one.
reissue_stale_header(c, tok) == resource_call(c, c.held)

\* The reissued request: the method, url and params of the original one, and
\* `headers["Authorization"] = f"Bearer {self.token}"` after the re-authentication.
reissue(c, tok) == resource_call(c, tok)

\* authenticate() if it did not raise on a reply that is not 200.
authenticate_ignores_failure(tok, reply) ==
    [token |-> IF reply.status = 200 THEN reply.token ELSE tok, result |-> Return]

\* authenticate(), from the reply on: the token it leaves and how it ends.
authenticate(tok, reply) ==
    CASE reply.status = 200 ->
           [token |-> reply.token, result |-> Return]
      [] reply.status = 0 ->
           [token |-> tok,
            result |-> WazuhApiError(<<"Connection error during authentication: ", "str(e)">>,
                                     503)]
      [] OTHER ->
           [token |-> tok,
            result |-> WazuhApiError(<<"Authentication failed: ", ToString(reply.status),
                                       " - ", "error_text">>, reply.status)]

\* The original request if a connection error were raised with no status code.
on_response_no_status(reply) ==
    CASE reply.status = 200 /\ reply.json_ok -> [next |-> "return", result |-> Return]
      [] reply.status = 200 ->
           [next |-> "raise",
            result |-> WazuhApiError(<<"Invalid JSON response: ", reply.body>>, 0)]
      [] reply.status = 401 -> [next |-> "reauth", result |-> NoResult]
      [] reply.status = 0 ->
           [next |-> "raise",
            result |-> WazuhApiError(<<"Connection error: ", "str(e)">>, 0)]
      [] OTHER ->
           [next |-> "raise",
            result |-> WazuhApiError(<<"API request failed: ", ToString(reply.status),
                                       " - ", reply.body>>, reply.status)]

\* The original request if every failure were reported as a connection error.
on_response_hides_status(reply) ==
    CASE reply.status = 200 /\ reply.json_ok -> [next |-> "return", result |-> Return]
      [] reply.status = 200 ->
           [next |-> "raise",
            result |-> WazuhApiError(<<"Invalid JSON response: ", reply.body>>, 0)]
      [] reply.status = 401 -> [next |-> "reauth", result |-> NoResult]
      [] OTHER ->
           [next |-> "raise",
            result |-> WazuhApiError(<<"Connection error: ", "str(e)">>, 503)]

\* What _make_request does with the reply to the original request.
on_response(reply) ==
    CASE reply.status = 200 /\ reply.json_ok -> [next |-> "return", result |-> Return]
      [] reply.status = 200 ->
           [next |-> "raise",
            result |-> WazuhApiError(<<"Invalid JSON response: ", reply.body>>, 0)]
      [] reply.status = 401 -> [next |-> "reauth", result |-> NoResult]
      [] reply.status = 0 ->
           [next |-> "raise",
            result |-> WazuhApiError(<<"Connection error: ", "str(e)">>, 503)]
      [] OTHER ->
           [next |-> "raise",
            result |-> WazuhApiError(<<"API request failed: ", ToString(reply.status),
                                       " - ", reply.body>>, reply.status)]

\* The reissued request if its reply were handled like the first one: a 401
\* starts another re-authentication.
on_retry_response_reauths(reply) ==
    CASE reply.status = 200 /\ reply.json_ok -> [next |-> "return", result |-> Return]
      [] reply.status = 200 -> [next |-> "raise", result |-> OtherError("JSONDecodeError")]
      [] reply.status = 401 -> [next |-> "reauth", result |-> NoResult]
      [] reply.status = 0 ->
           [next |-> "raise",
            result |-> WazuhApiError(<<"Connection error: ", "str(e)">>, 503)]
      [] OTHER ->
           [next |-> "raise",
            result |-> WazuhApiError(<<"API request failed after re-auth: ",
                                     ToString(reply.status), " - ", reply.body>>,
                                   reply.status)]

\* The reissued request if the `if retry_resp.status == 200` branch were missing.
on_retry_response_always_raises(reply) ==
    IF reply.status = 0
    THEN [next |-> "raise",
          result |-> WazuhApiError(<<"Connection error: ", "str(e)">>, 503)]
    ELSE [next |-> "raise",
          result |-> WazuhApiError(<<"API request failed after re-auth: ",
                                     ToString(reply.status), " - ", reply.body>>,
                                   reply.status)]

\* What it does with the reply to the reissued request.
on_retry_response(reply) ==
    CASE reply.status = 200 /\ reply.json_ok -> [next |-> "return", result |-> Return]
      [] reply.status = 200 -> [next |-> "raise", result |-> OtherError("JSONDecodeError")]
      [] reply.status = 0 ->
           [next |-> "raise",
            result |-> WazuhApiError(<<"Connection error: ", "str(e)">>, 503)]
      [] OTHER ->
           [next |-> "raise",
            result |-> WazuhApiError(<<"API request failed after re-auth: ",
                                     ToString(reply.status), " - ", reply.body>>,
                                   reply.status)]

\* How the body of `async with client` can end, given the requests it has made:
\* it returns ("None"), lets the WazuhApiError of its request through, or raises
\* something else (what the request raised, or an error of its own).
body_ends(sc, n, res) ==
    IF n = sc.since \/ res.kind = "return"
    THEN {"None", "Exception"}
    ELSE IF res.kind = "WazuhApiError"
    THEN {"WazuhApiError"}
    ELSE {"Exception"}

NoSslContext == [check_hostname |-> FALSE, verify_mode |-> "None", minimum_version |-> "None"]

\* ssl.create_default_context(): certificates are required and host names checked.
default_context ==
    [check_hostname |-> TRUE, verify_mode |-> "CERT_REQUIRED", minimum_version |-> "default"]

\* __aenter__ if it set the minimum version only on a verifying context.
create_ssl_context_floor_when_verifying(protocol, verify_ssl, old) ==
    IF protocol = "https"
    THEN IF ~verify_ssl
         THEN [default_context EXCEPT !.check_hostname = FALSE, !.verify_mode = "CERT_NONE"]
         ELSE [default_context EXCEPT !.check_hostname = TRUE,
                                      !.verify_mode = "CERT_REQUIRED",
                                      !.minimum_version = "TLSv1_2"]
    ELSE old

\* The `if self.protocol == "https"` block of __aenter__: the context it leaves
\* in self._ssl_context, given the one that was there.
create_ssl_context(protocol, verify_ssl, old) ==
    IF protocol = "https"
    THEN LET ctx == IF ~verify_ssl
                    THEN [default_context EXCEPT !.check_hostname = FALSE,
                                                 !.verify_mode = "CERT_NONE"]
                    ELSE [default_context EXCEPT !.check_hostname = TRUE,
                                                 !.verify_mode = "CERT_REQUIRED"]
         IN [ctx EXCEPT !.minimum_version = "TLSv1_2"]
    ELSE old

\* __aenter__: a new connector and a new session on it.
aenter == [connector |-> "open", session |-> "open"]

\* __aexit__ if it released the session only when the body ended without exception.
aexit_after_success(sess, conn, exc_type) ==
    IF exc_type = "None"
    THEN [session |-> IF sess # "None" THEN "closed" ELSE sess,
          connector |-> IF conn # "None" THEN "closed" ELSE conn]
    ELSE [session |-> sess, connector |-> conn]

\* __aexit__(exc_type, exc_val, exc_tb): `if self._session: await
\* self._session.close()`, `if self._connector: await self._connector.close()`,
\* without a look at exc_type; the attributes keep the closed objects.
aexit(sess, conn, exc_type) ==
    [session |-> IF sess # "None" THEN "closed" ELSE sess,
     connector |-> IF conn # "None" THEN "closed" ELSE conn]

\* __aexit__ if it dropped the token with the session.
token_after_exit_cleared(tok) == None

\* self.token once __aexit__ has returned: __aexit__ has no assignment to it.
token_after_exit(tok) == tok

\* `async with client` is entered. A tool enters its client once, and one tool
\* runs at a time, so the block is not active already.
Enter ==
    /\ cpc = "idle"
    /\ ~scope.active
    /\ session' = aenter.session
    /\ connector' = aenter.connector
    /\ scope' = [scope EXCEPT !.active = TRUE, !.since = ncalls]
    /\ ssl_context' = create_ssl_context(settings.protocol, settings.verify_ssl, ssl_context)
    /\ UNCHANGED <<token, cpc, call, log, replies, result, ncalls, settings>>
    /\ UNCHANGED pvars
    /\ UNCHANGED svars
    /\ UNCHANGED tvars

\* The body of `async with client` ends, by return or by exception, and Python
\* calls __aexit__ with the exception.
Exit ==
    /\ cpc = "idle"
    /\ scope.active
    /\ \E exc_type \in body_ends(scope, ncalls, result) :
         LET x == aexit(session, connector, exc_type)
         IN /\ session' = x.session
            /\ connector' = x.connector
            /\ scope' = [scope EXCEPT !.active = FALSE, !.exc = exc_type]
    /\ token' = token_after_exit(token)
    /\ UNCHANGED <<cpc, call, log, replies, result, ncalls, settings, ssl_context>>
    /\ UNCHANGED pvars
    /\ UNCHANGED svars
    /\ UNCHANGED tvars

\* _make_request on a client whose session is not open. `not self._session` holds
\* only of None; a closed ClientSession refuses every request with RuntimeError.
CallNoSession ==
    /\ cpc = "idle"
    /\ ncalls < MaxCalls
    /\ session # "open"
    /\ \E m \in HttpMethods, e \in Endpoints :
         call' = [method |-> m, endpoint |-> e, held |-> token, scoped |-> scope.active]
    /\ log' = <<>>
    /\ replies' = <<>>
    /\ result' = IF session = "None"
                 THEN WazuhApiError(<<"Client session not initialized. ",
                                      "Use 'async with' for WazuhClientBase.">>, 0)
                 ELSE OtherError("RuntimeError")
    /\ ncalls' = ncalls + 1
    /\ UNCHANGED <<session, token, cpc, connector, scope, settings, ssl_context>>
    /\ UNCHANGED pvars
    /\ UNCHANGED svars
    /\ UNCHANGED tvars

\* _make_request up to its first remote call: authenticate if no token is held,
\* else the resource request.
CallStart ==
    /\ cpc = "idle"
    /\ ncalls < MaxCalls
    /\ session = "open"
    /\ \E m \in HttpMethods, e \in Endpoints :
         /\ call' = [method |-> m, endpoint |-> e, held |-> token, scoped |-> scope.active]
         /\ IF token = None
            THEN /\ log' = <<auth_call>>
                 /\ cpc' = "auth"
            ELSE /\ log' = <<resource_call(call', token)>>
                 /\ cpc' = "request"
    /\ replies' = <<>>
    /\ result' = NoResult
    /\ ncalls' = ncalls + 1
    /\ UNCHANGED <<session, token, connector, scope, settings, ssl_context>>
    /\ UNCHANGED pvars
    /\ UNCHANGED svars
    /\ UNCHANGED tvars

\* The step _make_request takes on a reply to a resource request: r is what
\* on_response or on_retry_response made of it.
after_reply(r) ==
    IF r.next = "reauth"
    THEN /\ token' = None
         /\ log' = Append(log, auth_call)
         /\ cpc' = "reauth"
         /\ UNCHANGED result
    ELSE /\ result' = r.result
         /\ cpc' = "idle"
         /\ UNCHANGED <<token, log>>

\* The reply to an authenticate call, and what follows it in _make_request: the
\* resource request (after the first authenticate) or its reissue (after the second).
AuthReply ==
    /\ cpc \in {"auth", "reauth"}
    /\ \E reply \in AuthReplies :
         LET a == authenticate(token, reply)
         IN /\ token' = a.token
            /\ replies' = Append(replies, [kind |-> "authenticate", status |-> reply.status,
                                           json_ok |-> TRUE, body |-> ""])
            /\ IF a.result.kind = "return"
               THEN /\ log' = Append(log, IF cpc = "auth"
                                           THEN resource_call(call, a.token)
                                           ELSE reissue(call, a.token))
                    /\ cpc' = IF cpc = "auth" THEN "request" ELSE "retry"
                    /\ UNCHANGED result
               ELSE /\ result' = a.result
                    /\ cpc' = "idle"
                    /\ UNCHANGED log
    /\ UNCHANGED <<session, call, ncalls, connector, scope, settings, ssl_context>>
    /\ UNCHANGED pvars
    /\ UNCHANGED svars
    /\ UNCHANGED tvars

\* The reply to the original request.
ResourceReply ==
    /\ cpc = "request"
    /\ \E reply \in ResourceReplies :
         /\ replies' = Append(replies, [kind |-> "resource", status |-> reply.status,
                                        json_ok |-> reply.json_ok, body |-> reply.body])
         /\ after_reply(on_response(reply))
    /\ UNCHANGED <<session, call, ncalls, connector, scope, settings, ssl_context>>
    /\ UNCHANGED pvars
    /\ UNCHANGED svars
    /\ UNCHANGED tvars

\* The reply to the reissued request.
RetryReply ==
    /\ cpc = "retry"
    /\ \E reply \in ResourceReplies :
         /\ replies' = Append(replies, [kind |-> "resource", status |-> reply.status,
                                        json_ok |-> reply.json_ok, body |-> reply.body])
         /\ after_reply(on_retry_response(reply))
    /\ UNCHANGED <<session, call, ncalls, connector, scope, settings, ssl_context>>
    /\ UNCHANGED pvars
    /\ UNCHANGED svars
    /\ UNCHANGED tvars

-----------------------------------------------------------------------------
(* VulnerabilityTools: the check of agent_id and the use of the client.     *)
(* A Python string is the sequence of its characters.                       *)

DigitChars == <<"0", "1", "2", "3", "4", "5", "6", "7", "8", "9">>
is_digit(c) == \E d \in 1..10 : DigitChars[d] = c
digit_value(c) == (CHOOSE d \in 1..10 : DigitChars[d] = c) - 1
is_space(c) == c = " "

\* The characters of the agent ids tried: two digits, a blank, a letter.
Chars == {"0", "7", " ", "a"}

\* A value of the agent_id argument: a str, or something else (None, an int)
\* of which only the truth value matters.
Str(chars) == [type |-> "str", chars |-> chars, truthy |-> chars # <<>>]
NotStr(type, truthy) == [type |-> type, chars |-> <<>>, truthy |-> truthy]

AgentIds ==
    {Str(c) : c \in UNION {[1..n -> Chars] : n \in 0..MaxIdLen}}
    \cup {NotStr("NoneType", FALSE), NotStr("int", FALSE), NotStr("int", TRUE)}

VulnerabilityToolNames ==
    {"get_wazuh_vulnerability_summary", "get_wazuh_critical_vulnerabilities"}

RECURSIVE lstrip(_)
lstrip(sq) == IF sq # <<>> /\ is_space(sq[1]) THEN lstrip(Tail(sq)) ELSE sq

RECURSIVE rstrip(_)
rstrip(sq) ==
    IF sq # <<>> /\ is_space(sq[Len(sq)]) THEN rstrip(SubSeq(sq, 1, Len(sq) - 1)) ELSE sq

\* str.strip()
strip(sq) == rstrip(lstrip(sq))

\* re.match(r'^\d{1,3}$', agent_id)
re_match(sq) == Len(sq) \in 1..3 /\ \A i \in 1..Len(sq) : is_digit(sq[i])

\* int(agent_id) of a string of digits
RECURSIVE int(_)
int(sq) ==
    IF sq = <<>> THEN 0
    ELSE 10 * int(SubSeq(sq, 1, Len(sq) - 1)) + digit_value(sq[Len(sq)])

\* f"{num}": the number without padding.
format_03d_unpadded(num) ==
    IF num >= 100
    THEN <<DigitChars[(num \div 100) + 1], DigitChars[((num \div 10) % 10) + 1],
           DigitChars[(num % 10) + 1]>>
    ELSE IF num >= 10
    THEN <<DigitChars[(num \div 10) + 1], DigitChars[(num % 10) + 1]>>
    ELSE <<DigitChars[num + 1]>>

\* f"{num:03d}" for 0 <= num <= 999
format_03d(num) ==
    <<DigitChars[(num \div 100) + 1], DigitChars[((num \div 10) % 10) + 1],
      DigitChars[(num % 10) + 1]>>

\* ToolUtils.format_agent_id: (formatted_id, error_message), <<>> being None.
format_agent_id(agent_id) ==
    IF agent_id.type = "str"
    THEN LET stripped == strip(agent_id.chars)
         IN IF re_match(stripped)
            THEN LET num == int(stripped)
                 IN IF 0 <= num /\ num <= 999
                    THEN [formatted |-> format_03d(num), error |-> <<>>]
                    ELSE [formatted |-> <<>>,
                          error |-> <<"Agent ID must be between 0 and 999, got: ">>
                                    \o stripped]
            ELSE [formatted |-> <<>>,
                  error |-> <<"Invalid agent ID format: ">> \o stripped
                            \o <<". Expected numeric string.">>]
    ELSE [formatted |-> <<>>,
          error |-> <<"Agent ID must be a string, got: ", agent_id.type>>]

\* The tool up to `# Format agent ID`: `if not agent_id`, then format_agent_id.
check_agent_id(agent_id) ==
    IF ~agent_id.truthy
    THEN [formatted |-> <<>>, error |-> <<"Missing required parameter: agent_id.">>]
    ELSE format_agent_id(agent_id)

_error_result(message) ==
    [kind |-> "CallToolResult", content |-> <<Content(message)>>, is_error |-> TRUE]
_success_result(text) ==
    [kind |-> "CallToolResult", content |-> <<Content(text)>>, is_error |-> FALSE]

NoVuln == [tool |-> "", agent_id |-> NotStr("NoneType", FALSE), pc |-> "none",
           formatted |-> <<>>, result |-> NotRun]

\* A vulnerability tool is called with any of the agent ids.
VInputs ==
    vuln \in {[tool |-> t, agent_id |-> a, pc |-> "start", formatted |-> <<>>,
               result |-> NotRun] : t \in VulnerabilityToolNames, a \in AgentIds}

\* The tool from its first line to the `try`: it returns an error result, or
\* goes on with the formatted id.
CheckAgentId ==
    /\ vuln.pc = "start"
    /\ LET r == check_agent_id(vuln.agent_id)
       IN vuln' = IF r.error # <<>>
                  THEN [vuln EXCEPT !.pc = "done", !.result = _error_result(r.error)]
                  ELSE [vuln EXCEPT !.pc = "checked", !.formatted = r.formatted]
    /\ UNCHANGED <<pvars, cvars, svars>>

\* `async with self.vulnerability_client as client`
VulnEnter ==
    /\ vuln.pc = "checked"
    /\ session' = aenter.session
    /\ connector' = aenter.connector
    /\ ssl_context' = create_ssl_context(settings.protocol, settings.verify_ssl, ssl_context)
    /\ scope' = [scope EXCEPT !.active = TRUE, !.since = ncalls]
    /\ vuln' = [vuln EXCEPT !.pc = "entered"]
    /\ UNCHANGED <<token, cpc, call, log, replies, result, ncalls, settings>>
    /\ UNCHANGED <<pvars, svars>>

\* client.get_vulnerabilities(agent_id=formatted_agent_id, ...): _make_request
\* ("GET", f"/vulnerability/{agent_id}") up to its first remote call.
VulnRequest ==
    /\ vuln.pc = "entered"
    /\ cpc = "idle"
    /\ call' = [method |-> "GET", endpoint |-> <<"/vulnerability/">> \o vuln.formatted,
                held |-> token, scoped |-> scope.active]
    /\ IF token = None
       THEN /\ log' = <<auth_call>>
            /\ cpc' = "auth"
       ELSE /\ log' = <<resource_call(call', token)>>
            /\ cpc' = "request"
    /\ replies' = <<>>
    /\ result' = NoResult
    /\ ncalls' = ncalls + 1
    /\ vuln' = [vuln EXCEPT !.pc = "requested"]
    /\ UNCHANGED <<session, token, connector, scope, settings, ssl_context>>
    /\ UNCHANGED <<pvars, svars>>

\* The request has returned or raised: the `async with` block is left, and the
\* tool returns the summary, or the error result of one of its except clauses.
VulnReturn ==
    /\ vuln.pc = "requested"
    /\ cpc = "idle"
    /\ LET x == aexit(session, connector,
                      IF result.kind = "return" THEN "None" ELSE result.kind)
       IN /\ session' = x.session
          /\ connector' = x.connector
    /\ scope' = [scope EXCEPT !.active = FALSE,
                              !.exc = IF result.kind = "return" THEN "None" ELSE result.kind]
    /\ token' = token_after_exit(token)
    /\ vuln' = [vuln EXCEPT
                  !.pc = "done",
                  !.result = IF result.kind = "return"
                             THEN _success_result(<<"Vulnerability Summary for Agent ">>
                                                  \o vuln.formatted)
                             ELSE _error_result(<<"Error retrieving vulnerabilities">>)]
    /\ UNCHANGED <<cpc, call, log, replies, result, ncalls, settings, ssl_context>>
    /\ UNCHANGED <<pvars, svars>>

CInit ==
    /\ session = "None"
    /\ token = None
    /\ cpc = "idle"
    /\ call = NoCall
    /\ log = <<>>
    /\ replies = <<>>
    /\ result = NoResult
    /\ ncalls = 0
    /\ connector = "None"
    /\ scope = [active |-> FALSE, since |-> 0, exc |-> "None"]
    /\ ssl_context = NoSslContext

\* The client as WazuhMcpHandler.__init__ builds it when the environment sets
\* neither WAZUH_PROTOCOL nor WAZUH_VERIFY_SSL.
DefaultSettings == settings = [protocol |-> "https", verify_ssl |-> FALSE]

\* The client built with any protocol and any verify_ssl.
AnySettings == settings \in [protocol : {"https", "http"}, verify_ssl : BOOLEAN]

PInit ==
    /\ initialized = FALSE
    /\ handler_tools = tool_box(WazuhMcpHandlerMethods)
    /\ tools = _register_tools(handler_tools)
    /\ tpc = "loop"
    /\ stop_reason = ""
    /\ line = NoLine
    /\ response = <<>>
    /\ stdout = <<>>
    /\ wrote = <<>>
    /\ nread = 0
    /\ inflight = {}
    /\ last = [seq |-> 0, line |-> NoLine, outcome |-> NotRun, work |-> 0,
               initialized |-> FALSE]

\* No declaration is under decoration and no class body is given.
SNone ==
    /\ func = NoFunc
    /\ decorated = <<>>
    /\ class_body = <<>>
    /\ box = <<>>
    /\ listing = <<>>

\* No vulnerability tool is being called.
VNone == vuln = NoVuln

vars == <<pvars, cvars, svars, tvars>>

Init == PInit /\ CInit /\ DefaultSettings /\ SNone /\ VNone

ClientInit == PInit /\ CInit /\ AnySettings /\ SNone /\ VNone

Next ==
    \/ ReadEOF
    \/ ReadBlank
    \/ ReadHandle
    \/ ReadCallTool
    \/ ToolWork
    \/ ToolReturn

\* The server: the transport loop and the dispatcher.
Spec == Init /\ [][Next]_vars

ClientNext ==
    \/ Enter
    \/ Exit
    \/ CallNoSession
    \/ CallStart
    \/ AuthReply
    \/ ResourceReply
    \/ RetryReply

\* One client object under any order of enter, exit and requests.
ClientSpec == ClientInit /\ [][ClientNext]_vars

SchemaInit == PInit /\ CInit /\ DefaultSettings /\ SInputs /\ VNone

SchemaNext ==
    \/ Decorate
    \/ ToolBox
    \/ ToolsList

\* The decorators and tools/list on every declaration and class body of the inputs.
SchemaSpec == SchemaInit /\ [][SchemaNext]_vars

VulnInit == PInit /\ CInit /\ DefaultSettings /\ SNone /\ VInputs

VulnNext ==
    \/ CheckAgentId
    \/ VulnEnter
    \/ VulnRequest
    \/ AuthReply
    \/ ResourceReply
    \/ RetryReply
    \/ VulnReturn

\* One call of a vulnerability tool, on every agent id of the inputs.
VulnSpec == VulnInit /\ [][VulnNext]_vars

-----------------------------------------------------------------------------
(* Properties of the dispatcher and the transport, under Spec.              *)

\* The dispatch of some line has finished (last describes it).
Finished == last.seq > 0

\* A message that passes the structural checks of handle_message.
ValidRequest(l) ==
    /\ l.text = "object"
    /\ l.jsonrpc = "2.0"
    /\ l.method \notin {Absent, ""}

ToolsCall(l) == ValidRequest(l) /\ l.method = "tools/call" /\ l.params # "nonobject"

NamesRegisteredTool(l) ==
    /\ ToolsCall(l)
    /\ l.name \notin {Absent, ""}
    /\ dict_has(handler_tools, l.name)

\* The tool handler raised when it was invoked: Python could not bind the
\* arguments, or the body raised.
ToolRaised(l, o) ==
    /\ NamesRegisteredTool(l)
    /\ invoke(dict_get(handler_tools, l.name), l.arguments, l.keys, o).exc # "none"

IsSuccess(e) == "result" \in DOMAIN e /\ "error" \notin DOMAIN e
IsError(e, code) ==
    /\ "error" \in DOMAIN e
    /\ "result" \notin DOMAIN e
    /\ e.error.code = code

\* The lines printed for input line number seq.
Answers(seq) == {i \in 1..Len(wrote) : wrote[i] = seq}

WellFormed(e) ==
    /\ e.jsonrpc = "2.0"
    /\ "id" \in DOMAIN e
    /\ ("result" \in DOMAIN e) # ("error" \in DOMAIN e)

\* C1: when the handler of a registered tool raises on a tools/call, handle_message
\* returns a success envelope (a result, no error) with the request's id, whose
\* result has isError = TRUE and exactly one content item, of type "text".
C1_ToolFailureIsAResult ==
    Finished /\ ToolRaised(last.line, last.outcome) =>
        /\ Len(response) = 1
        /\ IsSuccess(response[1])
        /\ response[1].id = get(last.line, "id")
        /\ response[1].result.isError = TRUE
        /\ Len(response[1].result.content) = 1
        /\ response[1].result.content[1].type = "text"

\* C1 witness: a tool body ran and raised, and the answer is an isError result.
C1_Witness ==
    /\ Finished
    /\ ToolRaised(last.line, last.outcome)
    /\ last.outcome.kind = "raise"
    /\ last.line.id = "1"
    /\ Len(response) = 1
    /\ IsSuccess(response[1])
    /\ response[1].result.isError = TRUE

\* C4: a tools/call whose params carry no name (absent or empty) is answered with
\* an error envelope of code INVALID_PARAMS and the request's id, and no tool runs.
C4_MissingNameIsInvalidParams ==
    Finished /\ ToolsCall(last.line) /\ last.line.name \in {Absent, ""} =>
        /\ Len(response) = 1
        /\ IsError(response[1], INVALID_PARAMS)
        /\ response[1].id = get(last.line, "id")
        /\ last.outcome = NotRun

\* C5: a tools/call naming a tool that is not in the registry is answered with an
\* error envelope of code METHOD_NOT_FOUND and the request's id, and no tool runs.
C5_UnknownToolIsMethodNotFound ==
    Finished /\ ToolsCall(last.line) /\ last.line.name \notin {Absent, ""}
             /\ ~dict_has(handler_tools, last.line.name) =>
        /\ Len(response) = 1
        /\ IsError(response[1], METHOD_NOT_FOUND)
        /\ response[1].id = get(last.line, "id")
        /\ last.outcome = NotRun

\* C6: a request with no id member gets no response, whatever its method:
\* handle_message returns None and nothing is printed for it.
C6_NoIdNoResponse ==
    Finished /\ ValidRequest(last.line) /\ last.line.id = Absent =>
        /\ response = <<>>
        /\ Answers(last.seq) = {}

\* C7: a notifications/initialized message with the protocol tag "2.0", with or
\* without an id, sets initialized, returns None and has nothing printed for it.
C7_InitializedNotificationIsSilent ==
    Finished /\ ValidRequest(last.line) /\ last.line.method = "notifications/initialized" =>
        /\ initialized
        /\ response = <<>>
        /\ Answers(last.seq) = {}

\* C7 witness: such a message carrying an id has been dispatched after an answered line.
C7_Witness ==
    /\ Finished
    /\ ValidRequest(last.line)
    /\ last.line.method = "notifications/initialized"
    /\ last.line.id = "1"
    /\ last.seq = 2
    /\ initialized
    /\ response = <<>>
    /\ wrote = <<1>>

\* C8: the responses are printed in the order in which the lines they answer were
\* read: a later line is never answered before an earlier one.
C8_ResponsesInRequestOrder ==
    \A i, j \in 1..Len(wrote) : i < j => wrote[i] < wrote[j]

\* C8 witness: the first line was a tool call whose body took all its steps, a
\* second line was read, and the two answers are in that order.
C8_Witness ==
    /\ wrote = <<1, 2>>
    /\ "result" \in DOMAIN stdout[1]
    /\ "content" \in DOMAIN stdout[1].result
    /\ last.seq = 2
    /\ last.work = MaxWork

\* C9: every non-empty line other than a valid notifications/initialized message
\* has, once its dispatch is over, exactly one well-formed envelope printed for it.
NeedsAnswer(l) ==
    /\ ~strip_is_empty(l)
    /\ ~(ValidRequest(l) /\ l.method = "notifications/initialized")

C9_EveryLineIsAnswered ==
    Finished /\ NeedsAnswer(last.line) =>
        /\ Cardinality(Answers(last.seq)) = 1
        /\ \A i \in Answers(last.seq) : WellFormed(stdout[i])

\* C10: nothing a line holds stops the loop: it is left only at end of input, and
\* after any dispatched line the loop is ready to read the next one.
C10_OnlyEndOfInputStopsTheLoop ==
    /\ tpc = "stopped" => stop_reason = "eof"
    /\ Finished /\ stop_reason # "eof" => tpc = "loop"

-----------------------------------------------------------------------------
(* Properties of _make_request, under ClientSpec.                           *)

calls_of(kind) == SelectSeq(log, LAMBDA c : c.kind = kind)
resource_replies == SelectSeq(replies, LAMBDA r : r.kind = "resource")

\* The _make_request last started has ended, having begun with no token held
\* (its first remote call was authenticate) and got these two resource replies.
EndedAfter(first, second) ==
    /\ cpc = "idle"
    /\ log # <<>>
    /\ log[1].kind = "authenticate"
    /\ Len(resource_replies) = 2
    /\ resource_replies[1].status = first
    /\ resource_replies[2].status = second

TwoAndTwo ==
    /\ result.kind = "return"
    /\ Len(calls_of("authenticate")) = 2
    /\ Len(calls_of("resource")) = 2

\* C2 as stated: with no token held, a first reply 401 and a retry reply 200, the
\* request returns, after exactly two authenticate calls and two resource requests.
C2_RetrySucceeds == EndedAfter(401, 200) => TwoAndTwo

\* C2 amended: the same when the body of the retry's 200 reply parses as JSON.
C2_RetrySucceedsOnJson ==
    EndedAfter(401, 200) /\ resource_replies[2].json_ok => TwoAndTwo

C2_Witness ==
    /\ EndedAfter(401, 200)
    /\ resource_replies[2].json_ok
    /\ TwoAndTwo
    /\ session = "open"

\* C3: one _make_request issues at most two resource requests and at most two
\* authenticate calls; when the original and the retry both get 401 it ends in a
\* WazuhApiError with the retry as its last remote call.
C3_RetryBound ==
    /\ Len(calls_of("resource")) <= 2
    /\ Len(calls_of("authenticate")) <= 2
    /\ cpc = "idle" /\ Len(resource_replies) = 2
         /\ resource_replies[1].status = 401 /\ resource_replies[2].status = 401 =>
           /\ result.kind = "WazuhApiError"
           /\ Len(calls_of("resource")) = 2
           /\ log[Len(log)].kind = "resource"

C3_Witness ==
    /\ EndedAfter(401, 401)
    /\ result.kind = "WazuhApiError"
    /\ result.status = 401
    /\ Len(calls_of("authenticate")) = 2
    /\ Len(calls_of("resource")) = 2

-----------------------------------------------------------------------------
(* Rejections and unknown methods, under Spec.                              *)

\* The message fails one of the structural checks made before the dispatch.
Rejected(l) ==
    /\ l.text \in {"object", "nonobject"}
    /\ \/ l.text = "nonobject"
       \/ l.jsonrpc # "2.0"
       \/ l.method \in {Absent, ""}

\* The registry and the flag are as they were before the dispatch of the last line.
StateUnchanged ==
    /\ initialized = last.initialized
    /\ tools = _register_tools(tool_box(WazuhMcpHandlerMethods))
    /\ handler_tools = tool_box(WazuhMcpHandlerMethods)

\* C11: a parsed message that is no object, has no protocol tag, has a tag other
\* than "2.0" or has no method is answered with an error of code INVALID_REQUEST;
\* no tool runs for it and the initialized flag keeps its value, whatever method
\* the message names.
C11_RejectedBeforeDispatch ==
    Finished /\ Rejected(last.line) =>
        /\ Len(response) = 1
        /\ IsError(response[1], INVALID_REQUEST)
        /\ last.outcome = NotRun
        /\ StateUnchanged

\* C11 witness: a notifications/initialized message with tag "1.0" was rejected
\* while the server was not initialized, and it still is not.
C11_Witness ==
    /\ Finished
    /\ last.line.text = "object"
    /\ last.line.jsonrpc = "1.0"
    /\ last.line.method = "notifications/initialized"
    /\ ~last.initialized
    /\ ~initialized
    /\ Len(response) = 1
    /\ IsError(response[1], INVALID_REQUEST)

\* C12: an INVALID_REQUEST envelope carries the id of the rejected message when
\* that message is an object with an id, for each cause of rejection, and null
\* when the message is no object or has no id.
C12_RejectionEchoesId ==
    Finished /\ Rejected(last.line) /\ Len(response) = 1
             /\ IsError(response[1], INVALID_REQUEST) =>
        response[1].id = IF last.line.text = "object" THEN get(last.line, "id") ELSE None

\* C13: a non-empty line that json.loads cannot parse is answered with an error of
\* code PARSE_ERROR and id null, and the flag and the registry keep their values.
Unparseable(l) == json_loads(l).exc # "none" /\ ~strip_is_empty(l)

C13_ParseErrorAnswered ==
    Finished /\ Unparseable(last.line) =>
        /\ Len(response) = 1
        /\ IsError(response[1], PARSE_ERROR)
        /\ response[1].id = None
        /\ Answers(last.seq) # {}
        /\ StateUnchanged

\* C14: a valid request whose method is none of initialize,
\* notifications/initialized, tools/list, tools/call is answered with an error of
\* code -32601 and the request's id, and the flag and the registry keep their values.
KnownMethods == {"initialize", "notifications/initialized", "tools/list", "tools/call"}

C14_UnknownMethod ==
    Finished /\ ValidRequest(last.line) /\ last.line.method \notin KnownMethods =>
        /\ Len(response) = 1
        /\ IsError(response[1], -32601)
        /\ response[1].id = get(last.line, "id")
        /\ StateUnchanged

\* C14 witness: frobnicate with id "2", sent to an initialized server.
C14_Witness ==
    /\ Finished
    /\ ValidRequest(last.line)
    /\ last.line.method = "frobnicate"
    /\ last.line.id = "2"
    /\ last.initialized
    /\ initialized
    /\ Len(response) = 1
    /\ IsError(response[1], METHOD_NOT_FOUND)
    /\ response[1].id = "2"

\* C19: at most one message is in flight: while a dispatch is suspended in a tool
\* no later line has been read, and every line read before it has been dealt with.
C19_OneMessageInFlight ==
    /\ Cardinality(inflight) <= 1
    /\ \A m \in inflight :
         /\ m.seq = nread
         /\ Answers(m.seq) = {}
         /\ \A i \in 1..Len(wrote) : wrote[i] < m.seq

\* C19 witness: the second line is a tool call suspended on its remote work, after
\* the first line was answered.
C19_Witness ==
    /\ wrote = <<1>>
    /\ nread = 2
    /\ \E m \in inflight : m.seq = 2 /\ m.work = MaxWork

\* C20: the loop is left at end of input without an error, with no dispatch
\* pending; on an empty input no message was dispatched and nothing was written.
C20_EndOfInputStopsCleanly ==
    /\ stop_reason = "eof" => tpc = "stopped" /\ inflight = {}
    /\ tpc = "stopped" /\ nread = 0 =>
         /\ stop_reason = "eof"
         /\ ~Finished
         /\ stdout = <<>>
         /\ wrote = <<>>

\* C20 witness: end of input was the first thing read.
C20_Witness ==
    /\ tpc = "stopped"
    /\ stop_reason = "eof"
    /\ nread = 0
    /\ stdout = <<>>

-----------------------------------------------------------------------------
(* Authentication, failures and the session scope, under ClientSpec.        *)

resource_indices == {i \in 1..Len(log) : log[i].kind = "resource"}

\* C15: authentication is lazy and comes first: with no token held at the call,
\* the first remote call is an authenticate that has been answered before a
\* resource request is issued; with a token held, the first remote call is the
\* resource request with that token; every resource request carries a token.
C15_LazyAuthentication ==
    log # <<>> =>
        /\ call.held = None =>
             /\ log[1].kind = "authenticate"
             /\ Len(log) >= 2 =>
                  /\ replies # <<>>
                  /\ replies[1].kind = "authenticate"
                  /\ replies[1].status = 200
        /\ call.held # None =>
             /\ log[1].kind = "resource"
             /\ log[1].token = call.held
        /\ \A i \in resource_indices : log[i].token # None

\* The reply received last by the _make_request last started is that of an
\* authenticate call that failed.
AuthenticationFailed ==
    /\ replies # <<>>
    /\ replies[Len(replies)].kind = "authenticate"
    /\ replies[Len(replies)].status # 200

\* C16: when an authenticate call fails, _make_request ends there, raising
\* WazuhApiError with that authenticate as its last remote call: no resource request if it was the
\* initial authentication, only the original one (answered 401) if it was the
\* re-authentication; and no token is held afterwards.
C16_FailedAuthenticationEndsTheCall ==
    AuthenticationFailed =>
        /\ cpc = "idle"
        /\ result.kind = "WazuhApiError"
        /\ Len(log) = Len(replies)
        /\ log[Len(log)].kind = "authenticate"
        /\ token = None
        /\ IF Len(log) = 1
           THEN Len(calls_of("resource")) = 0
           ELSE /\ Len(calls_of("resource")) = 1
                /\ Len(resource_replies) = 1
                /\ resource_replies[1].status = 401

\* C16 witness: the re-authentication failed for want of a connection.
C16_Witness ==
    /\ AuthenticationFailed
    /\ replies[Len(replies)].status = 0
    /\ Len(calls_of("authenticate")) = 2
    /\ Len(calls_of("resource")) = 1
    /\ result.kind = "WazuhApiError"
    /\ result.status = 503
    /\ token = None

\* The _make_request last started has ended, and the first reply to its resource
\* request had a status that is neither 2xx nor 401.
FirstReplyIsFailure ==
    /\ cpc = "idle"
    /\ resource_replies # <<>>
    /\ resource_replies[1].status \notin {0, 401}
    /\ ~(resource_replies[1].status \in 200..299)

\* C17: when the first resource reply has a status that is neither 2xx nor 401,
\* _make_request raises WazuhApiError with that status and the body text in it,
\* after one resource request and no re-authentication, and the token is the one
\* the request was sent with.
C17_FailureStatusIsSurfaced ==
    FirstReplyIsFailure =>
        /\ result.kind = "WazuhApiError"
        /\ result.status = resource_replies[1].status
        /\ \E i \in 1..Len(result.text) : result.text[i] = resource_replies[1].body
        /\ \E i \in 1..Len(result.text) :
             result.text[i] = ToString(resource_replies[1].status)
        /\ Len(calls_of("resource")) = 1
        /\ Len(calls_of("authenticate")) = IF call.held = None THEN 1 ELSE 0
        /\ log[Len(log)].kind = "resource"
        /\ token = log[Len(log)].token

\* C17 witness: a held token, one request answered 404 "denied".
C17_Witness ==
    /\ FirstReplyIsFailure
    /\ call.held = "tokA"
    /\ token = "tokA"
    /\ resource_replies[1].status = 404
    /\ resource_replies[1].body = "denied"
    /\ result.status = 404
    /\ Len(log) = 1

\* C18: once the `async with` block of a client has been left, however its body
\* ended, the session and the connector created on entry are closed: no session
\* of the client stays open outside the block.
C18_ScopeReleasesSession ==
    ~scope.active => session # "open" /\ connector # "open"

\* C18 witness: the body ended with an exception that is no WazuhApiError, raised
\* by its request, and the session and the connector are closed.
C18_Witness ==
    /\ ~scope.active
    /\ scope.exc = "Exception"
    /\ result.kind = "JSONDecodeError"
    /\ session = "closed"
    /\ connector = "closed"

-----------------------------------------------------------------------------
(* Schema derivation and the registry, under SchemaSpec.                    *)

\* The declared parameters other than a leading self.
Declared(sig) ==
    {sig[i] : i \in (IF sig # <<>> /\ sig[1].name = "self" THEN 2 ELSE 1)..Len(sig)}

\* The annotation declares a nullable type: a union with None among its members.
Nullable(a) ==
    /\ a.origin \in {"Union", "UnionType"}
    /\ \E i \in 1..Len(a.args) : a.args[i] = "NoneType"

schema_of_func == decorated[1].input_schema
required_names == {schema_of_func.required[i] : i \in 1..Len(schema_of_func.required)}
property_names == {prop.name : prop \in schema_of_func.properties}

\* C22: in the derived schema a parameter is in 'required' if and only if it has
\* no default and its declared type is not nullable, whatever its position.
C22_RequiredIffNoDefaultAndNotNullable ==
    decorated # <<>> =>
        \A param \in Declared(func.signature) :
            param.name \in required_names
                <=> (~param.has_default /\ ~Nullable(param.annotation))

\* The type mapping as the specification states it.
StatedBase(c) ==
    CASE c = "str" -> "string"
      [] c = "int" -> "integer"
      [] c = "float" -> "number"
      [] c = "bool" -> "boolean"
      [] c = "list" -> "array"
      [] c = "dict" -> "object"
      [] OTHER -> "string"

StatedType(a) ==
    IF a.args = <<>>
    THEN StatedBase(a.origin)
    ELSE LET others == SelectSeq(a.args, LAMBDA c : c # "NoneType")
         IN IF Nullable(a) /\ Len(others) = 1 THEN StatedBase(others[1]) ELSE "string"

\* C23: str maps to "string", int to "integer", float to "number", bool to
\* "boolean", list to "array", dict to "object", a nullable-of-T declaration to
\* what T maps to, and every other declared type to "string".
C23_TypeMapping ==
    decorated # <<>> =>
        \A param \in Declared(func.signature) :
            \E prop \in schema_of_func.properties :
                /\ prop.name = param.name
                /\ prop.type = StatedType(param.annotation)

\* C24: the derived schema is an object schema with exactly one property per
\* declared parameter other than a leading self, which is in neither 'properties'
\* nor 'required'; 'required' holds property names only; 'title' is the tool name
\* followed by "_params".
C24_SchemaShape ==
    decorated # <<>> =>
        /\ schema_of_func.type = "object"
        /\ property_names = {param.name : param \in Declared(func.signature)}
        /\ Cardinality(schema_of_func.properties) = Cardinality(Declared(func.signature))
        /\ required_names \subseteq property_names
        /\ Len(schema_of_func.required) = Cardinality(required_names)
        /\ schema_of_func.title = <<decorated[1].name, "_params">>
        /\ decorated[1].name = IF func.name \in {None, ""} THEN func.fname ELSE func.name

\* C24 witness: a method with self and two parameters, one of them required.
C24_Witness ==
    /\ decorated # <<>>
    /\ Len(func.signature) = 3
    /\ func.signature[1] = Self
    /\ property_names = {"a", "b"}
    /\ required_names = {"b"}
    /\ schema_of_func.title = <<"t", "_params">>

\* The tools of the class body, as @tool made them.
made == [i \in 1..Len(class_body) |-> decorate(class_body[i])]
first_of(n) == CHOOSE i \in 1..Len(made) :
                   made[i].name = n /\ \A j \in 1..(i - 1) : made[j].name # n
last_of(n) == CHOOSE i \in 1..Len(made) :
                  made[i].name = n /\ \A j \in (i + 1)..Len(made) : made[j].name # n

-----------------------------------------------------------------------------
(* More properties of the dispatcher and the transport, under Spec.         *)

\* C21: a line that is empty after trimming is skipped: no dispatch starts or
\* finishes for it, nothing is written, the server state is unchanged, and the
\* loop goes on to the next line.
C21_BlankLineIsSkipped ==
    [][(nread' = nread + 1 /\ line'.text = "blank") =>
          /\ stdout' = stdout
          /\ wrote' = wrote
          /\ response' = response
          /\ initialized' = initialized
          /\ tools' = tools
          /\ handler_tools' = handler_tools
          /\ last' = last
          /\ inflight' = inflight
          /\ tpc' = "loop"]_vars

\* C21 witness: a blank line was read after an answered line, and the loop runs.
C21_Witness ==
    /\ line.text = "blank"
    /\ nread = 2
    /\ wrote = <<1>>
    /\ last.seq = 1
    /\ inflight = {}
    /\ tpc = "loop"

\* The registry as the class body of the handler declares it.
StartupRegistry == tool_box(WazuhMcpHandlerMethods)
StartupListing ==
    [tools |-> [i \in 1..Len(StartupRegistry) |->
                  [name |-> StartupRegistry[i].name,
                   description |-> StartupRegistry[i].description,
                   inputSchema |-> StartupRegistry[i].input_schema]]]

IsListing(e) == IsSuccess(e) /\ "tools" \in DOMAIN e.result

\* C26: whatever messages have been handled, the registry is what was registered
\* at startup (names, descriptions, schemas, handlers), and every answer to
\* tools/list is the listing of that registry, so any two of them are equal.
C26_RegistryIsImmutable ==
    /\ handler_tools = StartupRegistry
    /\ tools = StartupRegistry
    /\ \A i \in 1..Len(stdout) : IsListing(stdout[i]) => stdout[i].result = StartupListing
    /\ \A i, j \in 1..Len(stdout) :
         IsListing(stdout[i]) /\ IsListing(stdout[j]) => stdout[i].result = stdout[j].result

\* C26 witness: a tool call that failed, then a tools/list that lists four tools.
C26_Witness ==
    /\ Len(stdout) = 2
    /\ IsSuccess(stdout[1])
    /\ "isError" \in DOMAIN stdout[1].result
    /\ stdout[1].result.isError = TRUE
    /\ IsListing(stdout[2])
    /\ Len(stdout[2].result.tools) = 4
    /\ Finished /\ last.line.method = "tools/list"

\* C27: the answer to a message is the one a server with the other value of the
\* initialized flag gives to it: same envelope, or same exception.
C27_InitializedDoesNotGate ==
    Finished =>
        LET mine == handle_message(handler_tools, last.initialized, last.line, last.outcome)
            other == handle_message(handler_tools, ~last.initialized, last.line, last.outcome)
        IN /\ mine.exc = other.exc
           /\ mine.exc = "none" => (response = mine.value /\ response = other.value)

\* C27 witness: a tool was called, ran and was answered with its result on a
\* server that had handled no initialize and no initialized notification.
C27_Witness ==
    /\ Finished
    /\ ~last.initialized
    /\ ~initialized
    /\ nread = 1
    /\ ToolsCall(last.line)
    /\ last.outcome.kind = "CallToolResult"
    /\ Len(response) = 1
    /\ IsSuccess(response[1])
    /\ response[1].result.isError = FALSE

\* C28: the result of initialize has protocolVersion "2024-11-05", the handler's
\* server name, version and instructions, and capabilities with tools always and
\* with prompts and resources exactly when the handler's ServerCapabilities
\* enable them.
C28_InitializeResult ==
    Finished /\ ValidRequest(last.line) /\ last.line.method = "initialize" =>
        /\ Len(response) = 1
        /\ IsSuccess(response[1])
        /\ response[1].result.protocolVersion = "2024-11-05"
        /\ response[1].result.serverInfo = get_info.server_info
        /\ response[1].result.instructions = get_info.instructions
        /\ "tools" \in response[1].result.capabilities
        /\ "prompts" \in response[1].result.capabilities <=> get_info.capabilities.prompts
        /\ "resources" \in response[1].result.capabilities <=> get_info.capabilities.resources

\* The dispatch of a parsed message raised outside the invocation of a tool.
RaisedOutsideTool(l, o) ==
    /\ json_loads(l).exc = "none"
    /\ handle_request(handler_tools, last.initialized, l, o).exc # "none"

\* C29: an exception raised while a parsed message is handled, outside the
\* invocation of a tool, is answered with an error envelope of code
\* INTERNAL_ERROR with the request's id, and the error's 'data' member is the
\* exception's message.
C29_InternalErrorCarriesData ==
    Finished /\ RaisedOutsideTool(last.line, last.outcome) =>
        /\ Len(response) = 1
        /\ IsError(response[1], INTERNAL_ERROR)
        /\ response[1].id = get(last.line, "id")
        /\ "data" \in DOMAIN response[1].error
        /\ response[1].error.data =
             handle_request(handler_tools, last.initialized, last.line, last.outcome).msg

Codes == {PARSE_ERROR, INVALID_REQUEST, METHOD_NOT_FOUND, INVALID_PARAMS, INTERNAL_ERROR}

Envelope(e) ==
    /\ "jsonrpc" \in DOMAIN e
    /\ e.jsonrpc = "2.0"
    /\ "id" \in DOMAIN e
    /\ ("result" \in DOMAIN e) # ("error" \in DOMAIN e)
    /\ "error" \in DOMAIN e =>
         /\ DOMAIN e.error = {"code", "message"}
         /\ e.error.code \in Codes
         /\ \A k \in 1..Len(e.error.message) : e.error.message[k] \in STRING

\* C30: every envelope handle_message returns has the tag "2.0", an id member and
\* exactly one of result and error; an error has a string message and a code
\* that is one of -32700, -32600, -32601, -32602, -32603.
C30_EnvelopeShape ==
    /\ \A i \in 1..Len(stdout) : Envelope(stdout[i])
    /\ \A i \in 1..Len(response) : Envelope(response[i])

\* C30 witness: a success envelope and an error envelope have been returned.
C30_Witness ==
    /\ Len(stdout) = 2
    /\ IsSuccess(stdout[1])
    /\ stdout[1].id = "1"
    /\ IsError(stdout[2], METHOD_NOT_FOUND)
    /\ stdout[2].id = "2"
    /\ response = <<stdout[2]>>

\* What C34 says of a step: the flag changes only from false to true, and only
\* by the dispatch of a valid notifications/initialized message.
InitializedStep ==
    initialized' # initialized =>
        /\ ~initialized
        /\ initialized'
        /\ last'.seq = nread'
        /\ ValidRequest(last'.line)
        /\ last'.line.method = "notifications/initialized"

\* C34: the initialized flag is false at startup, becomes true only when a valid
\* notifications/initialized message is handled, and never goes back to false;
\* every other message, answered or rejected, leaves it as it is.
C34_InitializedFlag ==
    /\ [](nread = 0 => ~initialized)
    /\ [][InitializedStep]_vars
    /\ [][initialized => initialized']_vars

\* C34 witness: the flag was set by the first line and has stayed set through a
\* second line, which was an initialize request.
C34_Witness ==
    /\ initialized
    /\ nread = 2
    /\ Finished
    /\ last.initialized
    /\ last.line.method = "initialize"
    /\ Len(stdout) = 1

\* The names a client may ask for: those of the handler's methods and the inputs.
AskedNames ==
    (ToolNameInputs \ {Absent, ""})
        \cup {WazuhMcpHandlerMethods[i].name : i \in 1..Len(WazuhMcpHandlerMethods)}

\* tools/list names the tool.
Listed(n) ==
    LET listed == _handle_tools_list(handler_tools).tools
    IN \E i \in 1..Len(listed) : listed[i].name = n

\* tools/call finds a handler under the name: it does not end in 'Tool not found'.
Resolves(n) ==
    LET r == _handle_tools_call(handler_tools, Call("2.0", "1", "object", n, "absent", {}),
                                NotRun)
    IN ~(r.exc = "JsonRpcError" /\ r.msg[Len(r.msg) - 1] = "Tool not found: ")

ToolNotFound(e) ==
    /\ "error" \in DOMAIN e
    /\ \E k \in 1..Len(e.error.message) : e.error.message[k] = "Tool not found: "

\* C37: in every reachable state tools/list names a tool if and only if a
\* tools/call under that name finds a handler, the answers given agree with it,
\* and the tools of the server object are those of the handler object.
C37_ListingAndCallingAgree ==
    /\ tools = handler_tools
    /\ \A n \in AskedNames : Listed(n) <=> Resolves(n)
    /\ (Finished /\ ToolsCall(last.line) /\ last.line.name \notin {Absent, ""}) =>
          /\ Len(response) = 1
          /\ ToolNotFound(response[1]) <=> ~Listed(last.line.name)

\* C37 witness: tools/list was answered, then a call of one of the listed tools
\* ran its handler.
C37_Witness ==
    /\ Len(stdout) = 2
    /\ IsListing(stdout[1])
    /\ \E i \in 1..Len(stdout[1].result.tools) :
         stdout[1].result.tools[i].name = "get_wazuh_agents"
    /\ Finished
    /\ last.line.name = "get_wazuh_agents"
    /\ last.outcome.kind = "CallToolResult"
    /\ IsSuccess(stdout[2])
    /\ ~ToolNotFound(stdout[2])

\* The arguments of a call of a registered tool do not fit its parameters, as its
\* schema declares them: not a mapping, an unknown name, or a required one missing.
Misfit(l) ==
    /\ NamesRegisteredTool(l)
    /\ LET schema == dict_get(handler_tools, l.name).input_schema
           declared == {prop.name : prop \in schema.properties}
           needed == {schema.required[i] : i \in 1..Len(schema.required)}
       IN \/ l.arguments = "nonmapping"
          \/ \E k \in l.keys : k \notin declared
          \/ \E r \in needed : r \notin l.keys

\* C38: a tools/call of a registered tool whose arguments do not fit the
\* handler's parameters is answered with a success envelope whose result has
\* isError = TRUE, not with an error envelope, and the body of the handler does
\* not run, so it makes no remote call.
C38_MisfitIsAToolError ==
    Finished /\ Misfit(last.line) =>
        /\ Len(response) = 1
        /\ IsSuccess(response[1])
        /\ response[1].id = get(last.line, "id")
        /\ response[1].result.isError = TRUE
        /\ last.outcome = NotRun
        /\ last.work = 0

\* C38 witness: the vulnerability summary was called with an unknown argument
\* and without agent_id, and answered with an isError result.
C38_Witness ==
    /\ Finished
    /\ last.line.method = "tools/call"
    /\ last.line.name = "get_wazuh_vulnerability_summary"
    /\ last.line.arguments = "mapping"
    /\ last.line.keys = {"bogus"}
    /\ Len(response) = 1
    /\ IsSuccess(response[1])
    /\ response[1].result.isError = TRUE
    /\ last.outcome = NotRun

-----------------------------------------------------------------------------
(* More properties of the client, under ClientSpec.                         *)

C32_TlsContext ==
    session = "open" /\ settings.protocol = "https" =>
        /\ ssl_context.minimum_version = "TLSv1_2"
        /\ ssl_context.check_hostname = settings.verify_ssl
        /\ ssl_context.verify_mode =
             IF settings.verify_ssl THEN "CERT_REQUIRED" ELSE "CERT_NONE"

\* C32 witness: a session is open over https with verification turned off, and a
\* request has been made on it.
C32_Witness ==
    /\ session = "open"
    /\ settings = [protocol |-> "https", verify_ssl |-> FALSE]
    /\ ssl_context.verify_mode = "CERT_NONE"
    /\ ssl_context.minimum_version = "TLSv1_2"
    /\ ncalls = 1
    /\ scope.active

\* What C33 says of a state: re-authentication starts with no token held, and a
\* reissued request repeats the original one with the token now held.
TokenOfReissue ==
    /\ cpc = "reauth" => (token = None /\ log[Len(log)] = auth_call)
    /\ LET rs == calls_of("resource")
       IN Len(rs) = 2 =>
            /\ rs[2].method = rs[1].method
            /\ rs[2].endpoint = rs[1].endpoint
            /\ rs[2].token = token
            /\ rs[2].token # rs[1].token \/ token = rs[1].token
            /\ log[Len(log)] = rs[2]
            /\ log[Len(log) - 1] = auth_call

\* What C33 says of a step that changes the token.
TokenStep ==
    token' # token =>
        \/ /\ token = None
           /\ token' \in Tokens
           /\ cpc \in {"auth", "reauth"}
           /\ replies'[Len(replies')].kind = "authenticate"
           /\ replies'[Len(replies')].status = 200
        \/ /\ token \in Tokens
           /\ token' = None
           /\ cpc = "request"
           /\ cpc' = "reauth"
           /\ replies'[Len(replies')].status = 401

\* C33: within _make_request the token changes only from absent to valid, by an
\* authenticate answered 200, and from valid to absent, by a 401 on the original
\* request; the token is discarded before the re-authentication starts, and the
\* reissued request has the method and URL of the original and the token that
\* the re-authentication returned, not the discarded one.
C33_TokenLifecycle == []TokenOfReissue /\ [][TokenStep]_vars

\* C33 witness: a request sent with a held token got 401, and was reissued with
\* the other token, returned by the re-authentication.
C33_Witness ==
    /\ cpc = "idle"
    /\ call.held = "tokA"
    /\ token = "tokB"
    /\ Len(log) = 3
    /\ log[1].token = "tokA"
    /\ log[3].token = "tokB"
    /\ log[3].endpoint = log[1].endpoint
    /\ result.kind = "return"

SessionNotInitialized ==
    WazuhApiError(<<"Client session not initialized. ",
                    "Use 'async with' for WazuhClientBase.">>, 0)

\* C35: a request made while no session scope is open, before the first enter or
\* after a scope has exited, fails with the 'Client session not initialized'
\* error and makes no remote call.
C35_NoScopeNoRequest ==
    ncalls > 0 /\ cpc = "idle" /\ ~call.scoped =>
        /\ result = SessionNotInitialized
        /\ log = <<>>

\* What C36 says of a request made inside a scope with a token held: it starts
\* with the resource request under that token, and an authenticate call comes
\* only second, after a 401 to that request.
HeldTokenIsUsed ==
    call.scoped /\ call.held # None /\ ncalls > 0 =>
        /\ log # <<>>
        /\ log[1] = resource_call(call, call.held)
        /\ \A i \in 1..Len(log) :
             log[i] = auth_call =>
                 (i = 2 /\ replies[1].kind = "resource" /\ replies[1].status = 401)

\* C36: leaving a session scope leaves the token as it is; a request made in a
\* later scope on the same client, a token being held from an earlier one, is
\* sent first with that token and with no authenticate call before it, and an
\* authenticate call is made only after that request got a 401.
C36_TokenOutlivesScope ==
    /\ []HeldTokenIsUsed
    /\ [][(scope.active /\ ~scope'.active) => token' = token]_vars

\* C36 witness: the first scope obtained a token and was left; in the second
\* scope the request went out once, under that token, and returned.
C36_Witness ==
    /\ ncalls = 2
    /\ scope.active
    /\ scope.since = 1
    /\ call.scoped
    /\ call.held = "tokA"
    /\ log = <<resource_call(call, "tokA")>>
    /\ result.kind = "return"
    /\ cpc = "idle"

-----------------------------------------------------------------------------
(* Properties of the vulnerability tools, under VulnSpec.                   *)

AllDigits(sq) ==
    \A i \in 1..Len(sq) : sq[i] \in {"0", "1", "2", "3", "4", "5", "6", "7", "8", "9"}

\* The agent id is a string of one to three digits.
OneToThreeDigits(a) == a.type = "str" /\ Len(a.chars) \in 1..3 /\ AllDigits(a.chars)

\* chars[i..j] is a run of one to three digits with only blanks around it.
DigitsAt(a, i, j) ==
    /\ i <= j
    /\ j - i <= 2
    /\ AllDigits(SubSeq(a.chars, i, j))
    /\ \A k \in 1..Len(a.chars) : (k < i \/ k > j) => a.chars[k] = " "

\* The agent id is, blanks around it apart, a string of one to three digits.
OneToThreeDigitsTrimmed(a) ==
    /\ a.type = "str"
    /\ \E i, j \in 1..Len(a.chars) : DigitsAt(a, i, j)

DigitsOf(a) ==
    LET w == CHOOSE w \in (1..Len(a.chars)) \X (1..Len(a.chars)) : DigitsAt(a, w[1], w[2])
    IN SubSeq(a.chars, w[1], w[2])

PaddedToThree(d) ==
    CASE Len(d) = 1 -> <<"0", "0">> \o d
      [] Len(d) = 2 -> <<"0">> \o d
      [] OTHER -> d

ClientUntouched ==
    /\ session = "None"
    /\ connector = "None"
    /\ ~scope.active
    /\ ncalls = 0
    /\ log = <<>>
    /\ replies = <<>>

\* The tool refuses the id: it ends with an isError result and the client has
\* not been entered or asked for anything.
Refused ==
    /\ vuln.pc \in {"start", "done"}
    /\ vuln.pc = "done" => vuln.result.is_error
    /\ ClientUntouched

\* The tool takes the id: every remote resource call is for the id d padded to
\* three digits, and the tool does not end before it has made its request.
Taken(d) ==
    /\ vuln.pc \in {"entered", "requested", "done"} => session # "None"
    /\ vuln.pc \in {"requested", "done"} =>
         /\ ncalls = 1
         /\ call.endpoint = <<"/vulnerability/">> \o PaddedToThree(d)
         /\ log # <<>>
         /\ \A i \in 1..Len(log) :
              log[i].kind = "resource" => log[i].endpoint = call.endpoint

\* C39 as stated: an agent id that is missing, empty or not a string of one to
\* three digits is refused before the client is touched; one that is such a
\* string is passed to the remote call padded with zeros to three digits.
C39_AgentIdIsValidated ==
    IF OneToThreeDigits(vuln.agent_id)
    THEN Taken(vuln.agent_id.chars)
    ELSE Refused

\* C39: an agent id that is missing, empty or, blanks around it apart, not a
\* string of one to three digits is refused before the client is touched; any
\* other is passed to the remote call as its digits padded to three.
C39_TrimmedAgentIdIsValidated ==
    IF OneToThreeDigitsTrimmed(vuln.agent_id)
    THEN Taken(DigitsOf(vuln.agent_id))
    ELSE Refused

\* C39 witness: the id " 7" went out as /vulnerability/007 under a token, and
\* the tool returned its summary.
C39_Witness ==
    /\ vuln.pc = "done"
    /\ vuln.agent_id.chars = <<" ", "7">>
    /\ ~vuln.result.is_error
    /\ Len(log) = 2
    /\ log[2].kind = "resource"
    /\ log[2].endpoint = <<"/vulnerability/", "0", "0", "7">>
    /\ session = "closed"

====
